---- MODULE Spec2Model ----
(***************************************************************************)
(* Model of the Shop API (src/main.py): the route handlers of the unified  *)
(* product endpoint /api/{action}/{product_id}, of GET /products/{id}, of  *)
(* GET /products-search and of GET /cart-items, running against the two    *)
(* remote tables they read and write (products, cart_items).  Every remote *)
(* call of a handler is one step, so that the calls of concurrent requests *)
(* interleave.                                                             *)
(***************************************************************************)
EXTENDS Integers, Sequences, FiniteSets, TLC

VARIABLES products, cart_items, next_id, req, search, listing

vars == <<products, cart_items, next_id, req, search, listing>>

(* ------------------------------ bounds -------------------------------- *)

\* largest likes count of a product row in the initial table
MaxInitLikes == 1
\* largest quantity of a cart row in the initial table
MaxInitQty == 1
\* largest value of the quantity query parameter
MaxQuantity == 2
\* longest search string
MaxLen == 2

\* a behaviour issues two requests, one per slot: alone, in a row or overlapping
Requests == {1, 2}
ProductIds == {1, 2}
UserIds == {1, 7}
Quantities == 1..MaxQuantity
KnownActions == {"get", "favorite", "cart-add", "cart-remove", "cart-update"}
Actions == KnownActions \cup {"buy"}
Chars == {" ", "\t", "a", "B"}

(* ----------------------- str() and int() of likes ---------------------- *)

DigitChar == <<"0", "1", "2", "3", "4", "5", "6", "7", "8", "9">>

DigitVal(c) == (CHOOSE i \in 1..10 : DigitChar[i] = c) - 1

RECURSIVE NatStr(_)
NatStr(n) ==
    IF n < 10 THEN <<DigitChar[n + 1]>>
    ELSE NatStr(n \div 10) \o <<DigitChar[(n % 10) + 1]>>

\* str(n): the decimal text of an integer
str(n) == IF n < 0 THEN <<"-">> \o NatStr(-n) ELSE NatStr(n)

RECURSIVE NatVal(_)
NatVal(s) ==
    IF Len(s) = 0 THEN 0
    ELSE 10 * NatVal(SubSeq(s, 1, Len(s) - 1)) + DigitVal(s[Len(s)])

\* int(s): the integer a decimal text denotes
int(s) == IF Head(s) = "-" THEN 0 - NatVal(Tail(s)) ELSE NatVal(s)

\* likes or "0"
OrZero(s) == IF s = <<>> THEN <<"0">> ELSE s

(* ------------------------------ tables -------------------------------- *)

\* products.select(...).eq("id", product_id)
SelectProduct(tbl, product_id) == {row \in tbl : row.id = product_id}

\* (mutation: the update loses its id filter and rewrites every row)
UpdateProductAll(tbl, product_id, new_favorite, new_likes) ==
    {[row EXCEPT !.is_favorite = new_favorite, !.likes = new_likes] : row \in tbl}

\* (mutation: the update writes the like count and forgets the flag)
UpdateProductLikesOnly(tbl, product_id, new_favorite, new_likes) ==
    {IF row.id = product_id THEN [row EXCEPT !.likes = new_likes] ELSE row :
        row \in tbl}

\* products.update({is_favorite, likes}).eq("id", product_id)
UpdateProduct(tbl, product_id, new_favorite, new_likes) ==
    {IF row.id = product_id
        THEN [row EXCEPT !.is_favorite = new_favorite, !.likes = new_likes]
        ELSE row : row \in tbl}

\* cart_items.select("*").eq("user_id", user_id).eq("product_id", product_id)
SelectCart(tbl, user_id, product_id) ==
    {row \in tbl : row.user_id = user_id /\ row.product_id = product_id}

\* (mutation: the update inserts the row when the pair has none)
UpdateCartUpsert(tbl, user_id, product_id, q) ==
    IF \E row \in tbl : row.user_id = user_id /\ row.product_id = product_id
    THEN {IF row.user_id = user_id /\ row.product_id = product_id
             THEN [row EXCEPT !.quantity = q]
             ELSE row : row \in tbl}
    ELSE tbl \cup {[id |-> 0, user_id |-> user_id, product_id |-> product_id,
                    quantity |-> q]}

\* cart_items.update({"quantity": q}).eq("user_id", ..).eq("product_id", ..)
UpdateCart(tbl, user_id, product_id, q) ==
    {IF row.user_id = user_id /\ row.product_id = product_id
        THEN [row EXCEPT !.quantity = q]
        ELSE row : row \in tbl}

\* (mutation: the insert stores the default quantity, not the requested one)
InsertCartDefault(tbl, id, user_id, product_id, q) ==
    tbl \cup {[id |-> id, user_id |-> user_id, product_id |-> product_id,
               quantity |-> 1]}

\* cart_items.insert({user_id, product_id, quantity, selected_options: ""})
InsertCart(tbl, id, user_id, product_id, q) ==
    tbl \cup {[id |-> id, user_id |-> user_id, product_id |-> product_id,
               quantity |-> q]}

\* (mutation: the delete loses its product filter)
DeleteCartOfUser(tbl, user_id, product_id) ==
    {row \in tbl : row.user_id # user_id}

\* cart_items.delete().eq("user_id", user_id).eq("product_id", product_id)
DeleteCart(tbl, user_id, product_id) ==
    {row \in tbl : ~(row.user_id = user_id /\ row.product_id = product_id)}

\* (mutation: the like count is not clamped at 0)
NewLikesUnclamped(new_favorite, current_likes) ==
    current_likes + (IF new_favorite THEN 1 ELSE -1)

\* (mutation: the count moves by the old flag, down on set and up on clear)
NewLikesInverted(new_favorite, current_likes) ==
    LET new_likes == current_likes + (IF new_favorite THEN -1 ELSE 1)
    IN  IF new_likes > 0 THEN new_likes ELSE 0

\* the toggled like count: +1 when the flag is set, -1 when cleared, floor 0
NewLikes(new_favorite, current_likes) ==
    LET new_likes == current_likes + (IF new_favorite THEN 1 ELSE -1)
    IN  IF new_likes > 0 THEN new_likes ELSE 0

\* (mutation: the requested amount replaces the quantity instead of adding)
NewQtyReplace(current_qty, quantity) == quantity

\* cart-add's quantity for a row that exists
NewQty(current_qty, quantity) == current_qty + quantity

(* ---------------------------- search text ----------------------------- *)

Whitespace == {" ", "\t"}

RECURSIVE lstrip(_)
lstrip(s) ==
    IF Len(s) > 0 /\ Head(s) \in Whitespace THEN lstrip(Tail(s)) ELSE s

RECURSIVE rstrip(_)
rstrip(s) ==
    IF Len(s) > 0 /\ s[Len(s)] \in Whitespace
        THEN rstrip(SubSeq(s, 1, Len(s) - 1)) ELSE s

\* (mutation: the text is used as it came)
NoStrip(s) == s

\* q.strip()
strip(s) == rstrip(lstrip(s))

LowerChar(c) == IF c = "B" THEN "b" ELSE c
Lower(s) == [i \in 1..Len(s) |-> LowerChar(s[i])]

\* column ILIKE %q%: q occurs in the column's text, letter case ignored
ILike(text, q) ==
    \E i \in 0..(Len(text) - Len(q)) :
        SubSeq(Lower(text), i + 1, i + Len(q)) = Lower(q)

\* products.select("*").or_("product_name.ilike.%q%,brand_name.ilike.%q%")
SearchRows(tbl, q) ==
    {row \in tbl : ILike(row.product_name, q) \/ ILike(row.brand_name, q)}

(* ------------------------------- state -------------------------------- *)

\* the catalogue's texts: brand_name and product_name of each product id
BrandName(id) == IF id = 1 THEN <<"B">> ELSE <<"a">>
ProductName(id) == IF id = 1 THEN <<"a", " ", "B">> ELSE <<"b", "a">>

\* a request slot before its request arrives
Idle ==
    [pc |-> "idle", endpoint |-> "", action |-> "", product_id |-> 0,
     user_id |-> 0, quantity |-> 0, status |-> 0,
     new_favorite |-> FALSE, new_likes |-> 0, new_qty |-> 0,
     product |-> {}, response |-> {},
     reads |-> 0, writes |-> 0, failed |-> FALSE, overlapped |-> FALSE,
     pre_products |-> {}, pre_cart_items |-> {}]

\* search_products before it is called
NoSearch == [pc |-> "idle", q |-> <<>>, status |-> 0, data |-> {}, queries |-> 0]

\* get_cart_items before it is called; user_id is {} when the query omits it
NoListing ==
    [pc |-> "idle", user_id |-> {}, status |-> 0, data |-> {}, queries |-> 0]

\* a row of the products table
ProductRow(id, is_favorite, likes) ==
    [id |-> id, brand_name |-> BrandName(id), product_name |-> ProductName(id),
     is_favorite |-> is_favorite, likes |-> str(likes)]

\* a row of the cart_items table
CartRow(id, user_id, product_id, quantity) ==
    [id |-> id, user_id |-> user_id, product_id |-> product_id,
     quantity |-> quantity]

\* The tables as some earlier requests left them.  Product 1 is in the
\* catalogue, with any flag and like count; product 2 may be missing.  User 1
\* may hold product 1 (quantity 0 is a recently-viewed marker) and holds
\* product 2 when it exists; user 7 holds product 1.  No (user, product) pair
\* has more than one cart row.
Init ==
    /\ \E is_favorite \in BOOLEAN, likes \in 0..MaxInitLikes :
       \E second \in {{}, {ProductRow(2, FALSE, 0)}} :
          /\ products = {ProductRow(1, is_favorite, likes)} \cup second
          /\ \E first \in {{}} \cup {{CartRow(1, 1, 1, q)} : q \in 0..MaxInitQty} :
                cart_items = first \cup {CartRow(2, 7, 1, 1)}
                               \cup {CartRow(3, 1, row.id, 1) : row \in second}
    /\ next_id = 4
    /\ req = [r \in Requests |-> Idle]
    /\ search = NoSearch
    /\ listing = NoListing

InFlight(r) == req[r].pc \notin {"idle", "done"}

\* slots are taken in order: r is the first one no request has used
NextSlot(r) ==
    /\ req[r].pc = "idle"
    /\ \A o \in Requests : o < r => req[o].pc # "idle"

\* (mutation: an action that is not recognised goes on to the product lookup)
FirstStepLenient(action) ==
    CASE action = "favorite" -> "favorite_select"
      [] action = "cart-add" -> "cart_add_select"
      [] action = "cart-remove" -> "cart_remove_delete"
      [] action = "cart-update" -> "cart_update_update"
      [] OTHER -> "product_select"

\* the branch of unified_product_api an action value selects
FirstStep(action) ==
    CASE action = "favorite" -> "favorite_select"
      [] action = "cart-add" -> "cart_add_select"
      [] action = "cart-remove" -> "cart_remove_delete"
      [] action = "cart-update" -> "cart_update_update"
      [] action = "get" -> "product_select"
      [] OTHER -> "done"

\* the requests in flight when another arrives have run beside it
MarkOverlap(r, rec) ==
    [o \in Requests |->
        IF o = r THEN [rec EXCEPT !.overlapped = \E x \in Requests : InFlight(x)]
        ELSE IF InFlight(o) THEN [req[o] EXCEPT !.overlapped = TRUE]
        ELSE req[o]]

(* ------------------- GET /api/{action}/{product_id} -------------------- *)

\* a request arrives and unified_product_api branches on its action
ApiRequest(r, action, product_id, user_id, quantity) ==
    /\ NextSlot(r)
    /\ req' = MarkOverlap(r,
         [Idle EXCEPT !.pc = FirstStep(action), !.endpoint = "api",
                      !.action = action, !.product_id = product_id,
                      !.user_id = user_id, !.quantity = quantity,
                      !.status = IF FirstStep(action) = "done" THEN 400 ELSE 0,
                      !.pre_products = products,
                      !.pre_cart_items = cart_items])
    /\ UNCHANGED <<products, cart_items, next_id, search, listing>>

\* favorite: read (is_favorite, likes) of the product
FavoriteSelect(r) ==
    /\ req[r].pc = "favorite_select"
    /\ LET current == SelectProduct(products, req[r].product_id) IN
       IF current = {}
       THEN req' = [req EXCEPT ![r].pc = "done", ![r].status = 404,
                               ![r].reads = @ + 1]
       ELSE \E row \in current :
            LET current_favorite == row.is_favorite
                current_likes == int(OrZero(row.likes))
                new_favorite == ~current_favorite
            IN  req' = [req EXCEPT ![r].pc = "favorite_update",
                          ![r].new_favorite = new_favorite,
                          ![r].new_likes = NewLikes(new_favorite, current_likes),
                          ![r].reads = @ + 1]
    /\ UNCHANGED <<products, cart_items, next_id, search, listing>>

\* favorite: write the flipped flag and the new like count back
FavoriteUpdate(r) ==
    /\ req[r].pc = "favorite_update"
    /\ products' = UpdateProduct(products, req[r].product_id,
                                 req[r].new_favorite, str(req[r].new_likes))
    /\ req' = [req EXCEPT ![r].pc = "product_select", ![r].writes = @ + 1]
    /\ UNCHANGED <<cart_items, next_id, search, listing>>

\* (mutation: cart-add inserts without looking for a row of the pair)
CartAddSelectBlind(r) ==
    /\ req[r].pc = "cart_add_select"
    /\ req' = [req EXCEPT ![r].pc = "cart_add_insert", ![r].reads = @ + 1]
    /\ UNCHANGED <<products, cart_items, next_id, search, listing>>

\* cart-add: look for the cart row of (user_id, product_id)
CartAddSelect(r) ==
    /\ req[r].pc = "cart_add_select"
    /\ LET existing == SelectCart(cart_items, req[r].user_id, req[r].product_id) IN
       IF existing # {}
       THEN \E row \in existing :
            req' = [req EXCEPT ![r].pc = "cart_add_update",
                               ![r].new_qty = NewQty(row.quantity, req[r].quantity),
                               ![r].reads = @ + 1]
       ELSE req' = [req EXCEPT ![r].pc = "cart_add_insert", ![r].reads = @ + 1]
    /\ UNCHANGED <<products, cart_items, next_id, search, listing>>

\* cart-add: a row was found, write its increased quantity
CartAddUpdate(r) ==
    /\ req[r].pc = "cart_add_update"
    /\ cart_items' = UpdateCart(cart_items, req[r].user_id, req[r].product_id,
                                req[r].new_qty)
    /\ req' = [req EXCEPT ![r].pc = "product_select", ![r].writes = @ + 1]
    /\ UNCHANGED <<products, next_id, search, listing>>

\* cart-add: no row was found, insert one
CartAddInsert(r) ==
    /\ req[r].pc = "cart_add_insert"
    /\ cart_items' = InsertCart(cart_items, next_id, req[r].user_id,
                                req[r].product_id, req[r].quantity)
    /\ next_id' = next_id + 1
    /\ req' = [req EXCEPT ![r].pc = "product_select", ![r].writes = @ + 1]
    /\ UNCHANGED <<products, search, listing>>

\* cart-remove: delete the rows of (user_id, product_id)
CartRemoveDelete(r) ==
    /\ req[r].pc = "cart_remove_delete"
    /\ cart_items' = DeleteCart(cart_items, req[r].user_id, req[r].product_id)
    /\ req' = [req EXCEPT ![r].pc = "product_select", ![r].writes = @ + 1]
    /\ UNCHANGED <<products, next_id, search, listing>>

\* cart-update: set the quantity of the rows of (user_id, product_id)
CartUpdateUpdate(r) ==
    /\ req[r].pc = "cart_update_update"
    /\ cart_items' = UpdateCart(cart_items, req[r].user_id, req[r].product_id,
                                req[r].quantity)
    /\ req' = [req EXCEPT ![r].pc = "product_select", ![r].writes = @ + 1]
    /\ UNCHANGED <<products, next_id, search, listing>>

\* (mutation: a request that ends in 404 puts the cart back as it found it)
ProductSelectRollback(r) ==
    /\ req[r].pc = "product_select"
    /\ LET product_response == SelectProduct(products, req[r].product_id) IN
       IF product_response = {}
       THEN /\ req' = [req EXCEPT ![r].pc = "done", ![r].status = 404,
                                  ![r].reads = @ + 1]
            /\ cart_items' = req[r].pre_cart_items
       ELSE /\ req' = [req EXCEPT ![r].pc = "cart_select",
                                  ![r].product = product_response,
                                  ![r].reads = @ + 1]
            /\ UNCHANGED cart_items
    /\ UNCHANGED <<products, next_id, search, listing>>

\* after the branch: read the product again, 404 when there is none
ProductSelect(r) ==
    /\ req[r].pc = "product_select"
    /\ LET product_response == SelectProduct(products, req[r].product_id) IN
       IF product_response = {}
       THEN req' = [req EXCEPT ![r].pc = "done", ![r].status = 404,
                               ![r].reads = @ + 1]
       ELSE req' = [req EXCEPT ![r].pc = "cart_select",
                               ![r].product = product_response,
                               ![r].reads = @ + 1]
    /\ UNCHANGED <<products, cart_items, next_id, search, listing>>

\* the consolidated response body
ResponseData(product, cart_response) ==
    {[is_favorite |-> product.is_favorite,
      in_cart |-> cart_response # {},
      cart_quantity |-> q,
      likes |-> int(product.likes)] :
        q \in IF cart_response = {} THEN {0}
              ELSE {row.quantity : row \in cart_response}}

\* read the cart row with quantity > 0 and answer 200
CartSelect(r) ==
    /\ req[r].pc = "cart_select"
    /\ LET cart_response ==
             {row \in SelectCart(cart_items, req[r].user_id, req[r].product_id) :
                 row.quantity > 0}
       IN \E product \in req[r].product :
          \E data \in ResponseData(product, cart_response) :
             req' = [req EXCEPT ![r].pc = "done", ![r].status = 200,
                                ![r].response = {data}, ![r].reads = @ + 1]
    /\ UNCHANGED <<products, cart_items, next_id, search, listing>>

(* ----------------------- GET /products/{product_id} -------------------- *)

GetProductRequest(r, product_id) ==
    /\ NextSlot(r)
    /\ req' = MarkOverlap(r,
         [Idle EXCEPT !.pc = "get_product_select", !.endpoint = "products",
                      !.product_id = product_id,
                      !.pre_products = products,
                      !.pre_cart_items = cart_items])
    /\ UNCHANGED <<products, cart_items, next_id, search, listing>>

\* (mutation: the lookup answers 200 without looking at what it found)
GetProductSelectUnchecked(r) ==
    /\ req[r].pc = "get_product_select"
    /\ req' = [req EXCEPT ![r].pc = "done", ![r].status = 200,
                          ![r].product = SelectProduct(products, req[r].product_id),
                          ![r].reads = @ + 1]
    /\ UNCHANGED <<products, cart_items, next_id, search, listing>>

\* get_product: the single-row lookup, 404 when there is none
GetProductSelect(r) ==
    /\ req[r].pc = "get_product_select"
    /\ LET response == SelectProduct(products, req[r].product_id) IN
       IF response = {}
       THEN req' = [req EXCEPT ![r].pc = "done", ![r].status = 404,
                               ![r].reads = @ + 1]
       ELSE req' = [req EXCEPT ![r].pc = "done", ![r].status = 200,
                               ![r].product = response, ![r].reads = @ + 1]
    /\ UNCHANGED <<products, cart_items, next_id, search, listing>>

\* the pcs at which a handler is about to issue a remote call
RemoteCallPcs ==
    {"favorite_select", "favorite_update", "cart_add_select", "cart_add_update",
     "cart_add_insert", "cart_remove_delete", "cart_update_update",
     "product_select", "cart_select", "get_product_select"}

\* a remote call raises: except Exception -> HTTP 500, nothing is undone
RemoteFailure(r) ==
    /\ req[r].pc \in RemoteCallPcs
    /\ req' = [req EXCEPT ![r].pc = "done", ![r].status = 500,
                          ![r].failed = TRUE]
    /\ UNCHANGED <<products, cart_items, next_id, search, listing>>

(* --------------------------- GET /products-search ---------------------- *)

\* search_products(q): blank text answers at once, any other asks storage
SearchProducts(q) ==
    /\ search.pc = "idle"
    /\ LET stripped == strip(q) IN
       \/ /\ stripped = <<>>
          /\ search' = [pc |-> "done", q |-> q, status |-> 200, data |-> {},
                        queries |-> 0]
       \/ /\ stripped # <<>>
          /\ search' = [pc |-> "done", q |-> q, status |-> 200,
                        data |-> {row.id : row \in SearchRows(products, stripped)},
                        queries |-> 1]
       \/ /\ stripped # <<>>
          /\ search' = [pc |-> "done", q |-> q, status |-> 500, data |-> {},
                        queries |-> 1]
    /\ UNCHANGED <<products, cart_items, next_id, req, listing>>

(* ----------------------------- GET /cart-items ------------------------ *)

\* "if user_id:" -- an Optional[int] is true when it is given and is not 0
Truthy(user_id) == \E u \in user_id : u # 0

\* cart_items.select("*, products:product_id (*)").gt("quantity", 0), with
\* .eq("user_id", user_id) when user_id is true; each row carries its product
CartItemsQuery(user_id) ==
    {[id |-> row.id, quantity |-> row.quantity, user_id |-> row.user_id,
      products |-> SelectProduct(products, row.product_id)] :
        row \in {x \in cart_items :
                    /\ x.quantity > 0
                    /\ Truthy(user_id) => x.user_id \in user_id}}

\* the items of the response: the rows whose product the join found
CartItemsData(rows) ==
    UNION {{[cart_item_id |-> item.id, quantity |-> item.quantity,
             user_id |-> item.user_id, product |-> product.id] :
               product \in item.products} : item \in rows}

\* get_cart_items(user_id): one query, answered 200 or, if it raises, 500
GetCartItems(user_id) ==
    /\ listing.pc = "idle"
    /\ \/ listing' = [pc |-> "done", user_id |-> user_id, status |-> 200,
                      data |-> CartItemsData(CartItemsQuery(user_id)),
                      queries |-> 1]
       \/ listing' = [pc |-> "done", user_id |-> user_id, status |-> 500,
                      data |-> {}, queries |-> 1]
    /\ UNCHANGED <<products, cart_items, next_id, req, search>>

(* --------------------------- specifications --------------------------- *)

RECURSIVE Texts(_)
Texts(n) ==
    IF n = 0 THEN {<<>>}
    ELSE Texts(n - 1) \cup {Append(s, c) : s \in Texts(n - 1), c \in Chars}

\* the quantity values tried for an action: the default 1 where it is unused
QuantitiesOf(action) ==
    IF action \in {"cart-add", "cart-update"} THEN Quantities ELSE {1}

Arrive(r, users) ==
    \/ \E action \in Actions, product_id \in ProductIds, user_id \in users :
       \E quantity \in QuantitiesOf(action) :
          ApiRequest(r, action, product_id, user_id, quantity)
    \/ \E product_id \in ProductIds : GetProductRequest(r, product_id)

Step(r) ==
    \/ FavoriteSelect(r)
    \/ FavoriteUpdate(r)
    \/ CartAddSelect(r)
    \/ CartAddUpdate(r)
    \/ CartAddInsert(r)
    \/ CartRemoveDelete(r)
    \/ CartUpdateUpdate(r)
    \/ ProductSelect(r)
    \/ CartSelect(r)
    \/ GetProductSelect(r)
    \/ RemoteFailure(r)

\* requests arrive at any time: their remote calls interleave
\* (the requests are user 1's, so that they contend for the same rows)
Next == \E r \in Requests : Arrive(r, {1}) \/ Step(r)

Spec == Init /\ [][Next]_vars

\* a request arrives only when no other is in flight: no interleaving
SerialNext ==
    \E r \in Requests :
        \/ (\A o \in Requests : ~InFlight(o)) /\ Arrive(r, UserIds)
        \/ Step(r)

SerialSpec == Init /\ [][SerialNext]_vars

SearchNext == \E q \in Texts(MaxLen) : SearchProducts(q)

SearchSpec == Init /\ [][SearchNext]_vars

\* the user_id values of GET /cart-items: omitted, 0, or a user's id
ListingUserIds == {{}} \cup {{u} : u \in {0} \cup UserIds}

CartItemsNext == \E user_id \in ListingUserIds : GetCartItems(user_id)

CartItemsSpec == Init /\ [][CartItemsNext]_vars

(* ------------------------------- claims ------------------------------- *)

Max0(x) == IF x < 0 THEN 0 ELSE x

\* what one favorite toggle makes of a like count n under flag f
Toggled(f, n) == Max0(n + (IF f THEN -1 ELSE 1))

IsApi(r, action) == req[r].endpoint = "api" /\ req[r].action = action

\* r has ended and no request has arrived since: the tables are as r left them
Latest(r) ==
    /\ req[r].pc = "done"
    /\ \A o \in Requests : o > r => req[o].pc = "idle"

\* the product row and the cart rows r's request names, before and after it
PreProduct(r) == SelectProduct(req[r].pre_products, req[r].product_id)
NowProduct(r) == SelectProduct(products, req[r].product_id)
PreCart(r) == SelectCart(req[r].pre_cart_items, req[r].user_id, req[r].product_id)
NowCart(r) == SelectCart(cart_items, req[r].user_id, req[r].product_id)

\* C1: a favorite request that ran alone on an existing product with stored
\* (old_favorite, old_likes) leaves is_favorite = ~old_favorite and
\* likes = max(0, old_likes -/+ 1); it writes once, and once only, when its
\* remote calls succeed, and every other product row is as it was.
C1_FavoriteToggle ==
    \A r \in Requests :
        (Latest(r) /\ IsApi(r, "favorite") /\ PreProduct(r) # {}) =>
            /\ req[r].writes <= 1
            /\ ~req[r].failed => (req[r].writes = 1 /\ req[r].status = 200)
            /\ req[r].writes = 0 => products = req[r].pre_products
            /\ req[r].writes = 1 =>
                 \A old \in PreProduct(r) :
                    /\ Cardinality(NowProduct(r)) = 1
                    /\ \A new \in NowProduct(r) :
                         /\ new.is_favorite = ~old.is_favorite
                         /\ int(new.likes) =
                              Toggled(old.is_favorite, int(old.likes))
                    /\ products \ NowProduct(r) = req[r].pre_products \ {old}

\* a toggle of a favourite with no likes ran to its end beside another row
C1_Witness ==
    \E r \in Requests :
        /\ Latest(r) /\ IsApi(r, "favorite") /\ req[r].status = 200
        /\ \E old \in PreProduct(r) : old.is_favorite /\ int(old.likes) = 0
        /\ \E row \in products : row.id # req[r].product_id

\* C2: in every reachable state every product's like count is >= 0.
C2_LikesNeverNegative ==
    \A row \in products : int(OrZero(row.likes)) >= 0

\* two overlapping toggles have both written a favourite that had no likes
C2_Witness ==
    \E r1, r2 \in Requests :
        /\ r1 # r2 /\ req[r1].overlapped
        /\ IsApi(r1, "favorite") /\ IsApi(r2, "favorite")
        /\ req[r1].product_id = req[r2].product_id
        /\ req[r1].writes = 1 /\ req[r2].writes = 1
        /\ \E old \in PreProduct(r1) : old.is_favorite /\ int(old.likes) = 0
        /\ \E row \in NowProduct(r1) : int(row.likes) = 0

\* C3: a cart-add of quantity q that ran alone inserts exactly one row with
\* quantity q when the pair had none, and otherwise raises the pair's row from
\* n to n + q without inserting; so two cart-adds in a row from no row leave
\* one row with quantity q1 + q2.
C3_CartAdd ==
    /\ \A r \in Requests :
        (Latest(r) /\ IsApi(r, "cart-add")) =>
            /\ ~req[r].failed => req[r].writes = 1
            /\ req[r].writes = 0 => cart_items = req[r].pre_cart_items
            /\ (req[r].writes = 1 /\ PreCart(r) = {}) =>
                 /\ Cardinality(NowCart(r)) = 1
                 /\ \A row \in NowCart(r) : row.quantity = req[r].quantity
                 /\ cart_items \ NowCart(r) = req[r].pre_cart_items
            /\ (req[r].writes = 1 /\ PreCart(r) # {}) =>
                 /\ Cardinality(PreCart(r)) = 1
                 /\ \A old \in PreCart(r) :
                      cart_items =
                        (req[r].pre_cart_items \ {old}) \cup
                        {[old EXCEPT !.quantity = old.quantity + req[r].quantity]}
    /\ \A r1, r2 \in Requests :
        (/\ r2 = r1 + 1 /\ Latest(r2)
         /\ IsApi(r1, "cart-add") /\ IsApi(r2, "cart-add")
         /\ req[r1].user_id = req[r2].user_id
         /\ req[r1].product_id = req[r2].product_id
         /\ req[r1].writes = 1 /\ req[r2].writes = 1
         /\ PreCart(r1) = {}) =>
            /\ Cardinality(NowCart(r2)) = 1
            /\ \A row \in NowCart(r2) :
                 row.quantity = req[r1].quantity + req[r2].quantity

\* two cart-adds in a row, the first of which found no row
C3_Witness ==
    \E r1, r2 \in Requests :
        /\ r2 = r1 + 1 /\ Latest(r2)
        /\ IsApi(r1, "cart-add") /\ IsApi(r2, "cart-add")
        /\ req[r1].user_id = req[r2].user_id
        /\ req[r1].product_id = req[r2].product_id
        /\ req[r1].status = 200 /\ req[r2].status = 200
        /\ req[r1].quantity # req[r2].quantity
        /\ PreCart(r1) = {}
        /\ \E row \in NowCart(r2) : row.quantity > req[r2].quantity

\* C4: a cart-remove that ran alone leaves no row for its pair and every row
\* of another pair as it was; a second one then changes nothing, and its
\* delete raises nothing: with no transport failure it answers as the product
\* lookup decides.
C4_CartRemoveIdempotent ==
    /\ \A r \in Requests :
        (Latest(r) /\ IsApi(r, "cart-remove")) =>
            /\ ~req[r].failed => req[r].writes = 1
            /\ req[r].writes = 0 => cart_items = req[r].pre_cart_items
            /\ req[r].writes = 1 =>
                 /\ NowCart(r) = {}
                 /\ cart_items = req[r].pre_cart_items \ PreCart(r)
    /\ \A r1, r2 \in Requests :
        (/\ r2 = r1 + 1 /\ Latest(r2)
         /\ IsApi(r1, "cart-remove") /\ IsApi(r2, "cart-remove")
         /\ req[r1].user_id = req[r2].user_id
         /\ req[r1].product_id = req[r2].product_id
         /\ req[r1].writes = 1) =>
            /\ PreCart(r2) = {}
            /\ cart_items = req[r2].pre_cart_items
            /\ ~req[r2].failed =>
                 req[r2].status = IF NowProduct(r2) = {} THEN 404 ELSE 200

\* a pair's row was removed, another pair's row stayed, and the second
\* cart-remove of the pair answered 200
C4_Witness ==
    \E r1, r2 \in Requests :
        /\ r2 = r1 + 1 /\ Latest(r2)
        /\ IsApi(r1, "cart-remove") /\ IsApi(r2, "cart-remove")
        /\ req[r1].user_id = req[r2].user_id
        /\ req[r1].product_id = req[r2].product_id
        /\ PreCart(r1) # {}
        /\ req[r1].status = 200 /\ req[r2].status = 200
        /\ \E row \in cart_items : row.product_id = req[r1].product_id

\* C5: a cart-update that ran alone on a pair with no row changes neither
\* table and, with no transport failure, answers as the product lookup
\* decides (200 for a product that exists); on a pair with a row it sets the
\* quantity to the requested value whatever it was.
C5_CartUpdate ==
    \A r \in Requests :
        (Latest(r) /\ IsApi(r, "cart-update")) =>
            /\ products = req[r].pre_products
            /\ ~req[r].failed =>
                 /\ req[r].writes = 1
                 /\ req[r].status = IF NowProduct(r) = {} THEN 404 ELSE 200
            /\ (PreCart(r) = {} \/ req[r].writes = 0) =>
                 cart_items = req[r].pre_cart_items
            /\ (PreCart(r) # {} /\ req[r].writes = 1) =>
                 /\ \A row \in NowCart(r) : row.quantity = req[r].quantity
                 /\ {row.id : row \in NowCart(r)} = {row.id : row \in PreCart(r)}
                 /\ cart_items \ NowCart(r) = req[r].pre_cart_items \ PreCart(r)

\* a cart-update of a pair with no row answered 200
C5_Witness ==
    \E r \in Requests :
        /\ Latest(r) /\ IsApi(r, "cart-update")
        /\ PreCart(r) = {} /\ req[r].status = 200 /\ req[r].writes = 1

\* C6: a request of /api/{action}/{id} whose action is not recognised ends in
\* 400 having issued no remote call, whether or not the product exists, and a
\* recognised action never ends in 400; the tables are as it found them.
C6_UnknownActionRejected ==
    \A r \in Requests :
        (req[r].endpoint = "api" /\ req[r].pc # "idle") =>
            IF req[r].action \in KnownActions
            THEN req[r].status # 400
            ELSE /\ req[r].pc = "done" /\ req[r].status = 400
                 /\ req[r].reads = 0 /\ req[r].writes = 0 /\ ~req[r].failed
                 /\ (\A o \in Requests \ {r} : req[o].pc = "idle") =>
                       /\ products = req[r].pre_products
                       /\ cart_items = req[r].pre_cart_items

\* unrecognised actions were rejected for a product that exists and for one
\* that does not
C6_Witness ==
    \E r1, r2 \in Requests :
        /\ IsApi(r1, "buy") /\ IsApi(r2, "buy")
        /\ req[r1].status = 400 /\ req[r2].status = 400
        /\ NowProduct(r1) = {} /\ NowProduct(r2) # {}

\* C7: a finished request that names a product id missing from the products
\* table, GET /products/{id} or any recognised action of /api/{action}/{id},
\* never ended in 200 and ended in 404 unless a remote call failed; a
\* favorite request issued no write.
C7_MissingProduct404 ==
    \A r \in Requests :
        (/\ req[r].pc = "done"
         /\ req[r].endpoint = "products" \/ req[r].action \in KnownActions
         /\ NowProduct(r) = {}) =>
            /\ req[r].status # 200
            /\ ~req[r].failed => req[r].status = 404
            /\ req[r].failed => req[r].status = 500
            /\ IsApi(r, "favorite") => req[r].writes = 0

\* GET /products/{id} and a favorite toggle both ended in 404 on a missing id
C7_Witness ==
    \E r1, r2 \in Requests :
        /\ req[r1].endpoint = "products" /\ IsApi(r2, "favorite")
        /\ req[r1].status = 404 /\ req[r2].status = 404
        /\ req[r2].reads = 1 /\ req[r2].writes = 0

IsBlank(q) == \A i \in 1..Len(q) : q[i] = " " \/ q[i] = "\t"

\* C8: a search whose text is empty or all whitespace answers 200 with no
\* rows and asks storage nothing; any other text asks storage exactly once.
C8_BlankSearch ==
    search.pc = "done" =>
        IF IsBlank(search.q)
        THEN search.status = 200 /\ search.data = {} /\ search.queries = 0
        ELSE search.queries = 1

\* a search for whitespace was answered without a query
C8_Witness ==
    /\ search.pc = "done" /\ Len(search.q) > 1 /\ IsBlank(search.q)
    /\ search.status = 200 /\ search.queries = 0

\* both requests are of this action on the same rows, and both have written
BothWrote(action) ==
    /\ \A r \in Requests :
        IsApi(r, action) /\ req[r].pc = "done" /\ req[r].writes = 1
    /\ \A r1, r2 \in Requests :
        /\ req[r1].user_id = req[r2].user_id
        /\ req[r1].product_id = req[r2].product_id

SumOfQuantities == req[1].quantity + req[2].quantity

\* C9: when two cart-adds of amounts q1 and q2 for the same pair, whose row
\* held n, have both written, the row holds n + q1 + q2 if they ran one after
\* the other, and n + q1, n + q2 or n + q1 + q2 if they overlapped.
C9_CartAddLostUpdate ==
    (BothWrote("cart-add") /\ PreCart(1) # {}) =>
        \A old \in PreCart(1) :
            /\ Cardinality(NowCart(1)) = 1
            /\ \A row \in NowCart(1) :
                 /\ row.quantity \in {old.quantity + req[1].quantity,
                                      old.quantity + req[2].quantity,
                                      old.quantity + SumOfQuantities}
                 /\ ~req[1].overlapped =>
                      row.quantity = old.quantity + SumOfQuantities

\* two overlapping cart-adds both answered 200 and one amount is lost
C9_Witness ==
    /\ BothWrote("cart-add") /\ req[1].overlapped
    /\ req[1].status = 200 /\ req[2].status = 200
    /\ req[1].quantity # req[2].quantity
    /\ \E old \in PreCart(1) : \E row \in NowCart(1) :
          /\ old.quantity > 0
          /\ row.quantity = old.quantity + req[1].quantity

\* C10: when two favorite toggles of a product stored as (f, n) have both
\* written, the product is as two toggles in a row leave it, flag f again, if
\* they ran one after the other, and as either one or two toggles leave it if
\* they overlapped.
C10_FavoriteLostUpdate ==
    (BothWrote("favorite") /\ PreProduct(1) # {}) =>
        \A old \in PreProduct(1) :
            LET f == old.is_favorite
                n == int(old.likes)
                once == <<~f, Toggled(f, n)>>
                twice == <<f, Toggled(~f, Toggled(f, n))>>
            IN  /\ Cardinality(NowProduct(1)) = 1
                /\ \A row \in NowProduct(1) :
                     /\ <<row.is_favorite, int(row.likes)>> \in {once, twice}
                     /\ ~req[1].overlapped =>
                          <<row.is_favorite, int(row.likes)>> = twice

\* two overlapping toggles both answered 200 and the flag is flipped once
C10_Witness ==
    /\ BothWrote("favorite") /\ req[1].overlapped
    /\ req[1].status = 200 /\ req[2].status = 200
    /\ \E old \in PreProduct(1) : \E row \in NowProduct(1) :
          /\ row.is_favorite = ~old.is_favorite
          /\ int(row.likes) = Toggled(old.is_favorite, int(old.likes))
          /\ int(row.likes) # int(old.likes)

CartActions == {"cart-add", "cart-remove", "cart-update"}

\* the cart_items change r's request asked for is in the table
ChangeStands(r) ==
    /\ cart_items \ NowCart(r) = req[r].pre_cart_items \ PreCart(r)
    /\ req[r].action = "cart-remove" => NowCart(r) = {}
    /\ req[r].action = "cart-update" =>
         /\ {row.id : row \in NowCart(r)} = {row.id : row \in PreCart(r)}
         /\ \A row \in NowCart(r) : row.quantity = req[r].quantity
    /\ (req[r].action = "cart-add" /\ PreCart(r) = {}) =>
         /\ Cardinality(NowCart(r)) = 1
         /\ \A row \in NowCart(r) : row.quantity = req[r].quantity
    /\ (req[r].action = "cart-add" /\ PreCart(r) # {}) =>
         NowCart(r) =
           {[old EXCEPT !.quantity = old.quantity + req[r].quantity] :
               old \in PreCart(r)}

\* C11: a cart-add, cart-remove or cart-update that ran alone writes before
\* the product is read again, so one that ends in 404 has written, and
\* whatever its end (404 for a missing product, 500 for a later call that
\* raised) the change it wrote is still in cart_items.
C11_NoRollback ==
    \A r \in Requests :
        (Latest(r) /\ req[r].endpoint = "api" /\ req[r].action \in CartActions) =>
            /\ req[r].status = 404 => (req[r].writes = 1 /\ NowProduct(r) = {})
            /\ req[r].writes = 1 => ChangeStands(r)

\* a cart-add for a missing product ended in 404 and its row is in the
\* table; a cart-update ended in 500 after it changed a quantity
C11_Witness ==
    \E r1, r2 \in Requests :
        /\ r2 = r1 + 1 /\ Latest(r2)
        /\ IsApi(r1, "cart-add") /\ req[r1].status = 404
        /\ PreCart(r1) = {}
        /\ \E row \in cart_items :
              /\ row \notin req[r1].pre_cart_items
              /\ row.product_id = req[r1].product_id
        /\ IsApi(r2, "cart-update") /\ req[r2].status = 500
        /\ req[r2].writes = 1
        /\ cart_items # req[r2].pre_cart_items

\* C12: GET /cart-items returns only rows with quantity > 0, and whenever a
\* user_id is supplied, 0 included, every returned row belongs to that user.
C12_CartItemsFiltered ==
    (listing.pc = "done" /\ listing.status = 200) =>
        /\ \A item \in listing.data : item.quantity > 0
        /\ listing.user_id # {} =>
             \A item \in listing.data : item.user_id \in listing.user_id

\* no (user_id, product_id) pair has two cart rows
OneRowPerPair ==
    \A row1, row2 \in cart_items :
        (row1.user_id = row2.user_id /\ row1.product_id = row2.product_id) =>
            row1 = row2

\* C13: from a table with at most one row per pair, requests that run one
\* after the other keep at most one row per pair; a pair gets two rows only
\* by two overlapping cart-adds that both found no row and both inserted.
C13_OneRowPerPair ==
    /\ (\A r \in Requests : ~req[r].overlapped) => OneRowPerPair
    /\ ~OneRowPerPair =>
         /\ \A r \in Requests :
               /\ IsApi(r, "cart-add") /\ req[r].overlapped
               /\ req[r].writes = 1 /\ PreCart(r) = {}
         /\ req[1].user_id = req[2].user_id
         /\ req[1].product_id = req[2].product_id
         /\ Cardinality(NowCart(1)) = 2

\* two overlapping cart-adds both answered 200 and the pair has two rows
C13_Witness ==
    /\ ~OneRowPerPair
    /\ \A r \in Requests : req[r].overlapped /\ req[r].status = 200

\* C14: two favorite toggles of an existing product stored as (f, n), run one
\* after the other, leave the flag f again, and the like count n again unless
\* the product was a favourite with no likes, which they leave with 1.
C14_ToggleTwice ==
    (/\ Latest(2) /\ BothWrote("favorite") /\ PreProduct(1) # {}) =>
        \A old \in PreProduct(1) :
            /\ Cardinality(NowProduct(2)) = 1
            /\ \A row \in NowProduct(2) :
                 /\ row.is_favorite = old.is_favorite
                 /\ int(row.likes) =
                      IF old.is_favorite /\ int(old.likes) = 0
                      THEN 1 ELSE int(old.likes)

\* a favourite with no likes was toggled twice and now has one like
C14_Witness ==
    /\ Latest(2) /\ BothWrote("favorite")
    /\ req[1].status = 200 /\ req[2].status = 200
    /\ \E old \in PreProduct(1) : \E row \in NowProduct(2) :
          /\ old.is_favorite /\ int(old.likes) = 0
          /\ row.is_favorite /\ int(row.likes) = 1

====
